---- MODULE Spec2Model ----
(***************************************************************************)
(* Model of src/amber.js: the itch.io slideshow widget.                    *)
(*                                                                         *)
(* Every action is one run-to-completion step of the browser's event loop: *)
(* an event handler, an interval callback, or the continuation of an       *)
(* async function after one of its awaits settles.  Strings that the code  *)
(* inspects character by character (URLs) are sequences of one-character   *)
(* strings; strings it only copies (titles, descriptions, image names) are *)
(* TLA+ strings, "" being the empty (falsy) string.                        *)
(***************************************************************************)
EXTENDS Integers, Sequences, FiniteSets, TLC

(***************************************************************************)
(* Bounds of the model.                                                    *)
(***************************************************************************)
\* loadSlides calls started in one behaviour (the page-load one included)
MaxLoads == 2
\* wall-clock time that passes in one Tick step, in ms
TickMs == 2500
\* the range -MaxArg..MaxArg of the argument of a stand-alone showSlide(i)
MaxArg == 7

(***************************************************************************)
(* Program constants.                                                      *)
(***************************************************************************)
Https == <<"h", "t", "t", "p", "s", ":", "/", "/">>

DEFAULT_ITCH_URL ==
    Https \o <<"d", "u", "c", "k", "y", "-", "d", "e", "v", ".",
               "i", "t", "c", "h", ".", "i", "o">>

AUTO_INTERVAL_MS == 5000

\* nodes.slice(0, 12)
SLICE_END == 12

\* the five selectors tried in order on the fetched page
selectors == <<".game-column", ".game_column", ".game_cell", ".project_cell",
               ".game_cell_wrapper">>

(***************************************************************************)
(* JavaScript values.                                                      *)
(***************************************************************************)
\* a JSON object with the four Slide fields (a missing field is "" / <<>>)
Obj(t, d, i, u) == [kind |-> "object", title |-> t, desc |-> d, img |-> i, url |-> u]
JsonNull == [kind |-> "null"]
JsonNumber == [kind |-> "number"]
\* what an out-of-range array index reads
Undefined == [kind |-> "undefined"]

\* timer = null
NoTimer == 0

\* a % n of JavaScript: the remainder takes the sign of the dividend
JsRem(a, n) == IF a >= 0 THEN a % n ELSE -((-a) % n)

\* arr[k] of JavaScript on the 1-based sequence arr
JsIndex(arr, k) == IF k >= 0 /\ k < Len(arr) THEN arr[k + 1] ELSE Undefined

\* v.title, v.desc, v.img: undefined on a number, read as "" by `|| ''`
PropStr(v, f) == IF v.kind = "object" THEN v[f] ELSE ""
\* v.url
PropUrl(v) == IF v.kind = "object" THEN v.url ELSE <<>>
\* property access throws a TypeError on null and undefined
ThrowsOnAccess(v) == v.kind \in {"null", "undefined"}

\* sampleSlides with its second entry lost
sampleSlidesShort ==
    << Obj("Sample Game 1", "A sample game fallback", "BG.jpg", DEFAULT_ITCH_URL) >>

sampleSlides ==
    << Obj("Sample Game 1", "A sample game fallback", "BG.jpg", DEFAULT_ITCH_URL),
       Obj("Sample Game 2", "Second sample", "BG.jpg", DEFAULT_ITCH_URL) >>

(***************************************************************************)
(* Character-level helpers for the regular expressions of the code.        *)
(***************************************************************************)
Lower(c) ==
    CASE c = "H" -> "h" [] c = "T" -> "t" [] c = "P" -> "p" [] c = "S" -> "s"
      [] OTHER -> c

LowerSeq(s) == [k \in 1..Len(s) |-> Lower(s[k])]

StartsWith(s, p) == Len(s) >= Len(p) /\ SubSeq(s, 1, Len(p)) = p

\* /^https?:\/\//i.test(s)
HasScheme(s) ==
    \/ StartsWith(LowerSeq(s), <<"h", "t", "t", "p", ":", "/", "/">>)
    \/ StartsWith(LowerSeq(s), Https)

\* s.replace(/^\/\//, '')
StripSlashes(s) == IF StartsWith(s, <<"/", "/">>) THEN SubSeq(s, 3, Len(s)) ELSE s

\* the normalisation without the replace(/^\/\//, '')
NormalizeKeepsSlashes(input) == IF HasScheme(input) THEN input ELSE Https \o input

\* the F2 handler's normalisation of a non-empty prompt input
Normalize(input) == IF HasScheme(input) THEN input ELSE Https \o StripSlashes(input)

\* s.includes(p)
Includes(s, p) ==
    \E k \in 1..Len(s) : k + Len(p) - 1 <= Len(s) /\ SubSeq(s, k, k + Len(p) - 1) = p

\* /itch.io/.test(s): "itch", any one character, "io"
MatchesItchIo(s) ==
    \E k \in 1..Len(s) :
        /\ k + 6 <= Len(s)
        /\ SubSeq(s, k, k + 3) = <<"i", "t", "c", "h">>
        /\ SubSeq(s, k + 5, k + 6) = <<"i", "o">>

(***************************************************************************)
(* The direct tier: scraping the fetched page (lines 62-90).               *)
(*                                                                         *)
(* A parsed document is [cells, anchors]: cells[s] is the list of nodes    *)
(* doc.querySelectorAll(s) yields, anchors the list of all <a> elements.   *)
(* A node is [a, titleText, descText, img]: a is the anchor node.query-    *)
(* Selector('a') || node.closest('a') finds ([present, href, title, text]),*)
(* titleText / descText the trimmed text of its .title / .description      *)
(* element ("" when there is none), img its <img> ([present, src]).        *)
(***************************************************************************)
NoAnchor == [present |-> FALSE, href |-> <<>>, title |-> "", text |-> ""]
Anchor(h, t, x) == [present |-> TRUE, href |-> h, title |-> t, text |-> x]
NoImg == [present |-> FALSE, src |-> ""]
Img(s) == [present |-> TRUE, src |-> s]
Node(a, t, d, i) == [a |-> a, titleText |-> t, descText |-> d, img |-> i]

\* new URL(src, base).href: img.src is the already resolved, absolute URL of
\* the image, which resolving against base leaves as it is; the catch branch
\* returns src as well
absUrl(src, base) == src

\* a || b on strings
OrStr(a, b) == IF a # "" THEN a ELSE b

\* the callback of nodes.map (lines 78-87)
NodeToSlide(node, url) ==
    LET href == IF node.a.present THEN node.a.href ELSE url
        title == OrStr(node.titleText,
                       OrStr(node.a.title, OrStr(node.a.text, "Untitled")))
        imgsrc == IF node.img.present THEN node.img.src ELSE ""
    IN Obj(title, node.descText,
           IF imgsrc # "" THEN absUrl(imgsrc, url) ELSE "BG.jpg", href)

\* the selector loop (lines 67-71), from selector number k on
RECURSIVE FirstMatch(_, _)
FirstMatch(doc, k) ==
    IF k > Len(selectors) THEN <<>>
    ELSE IF Len(doc.cells[selectors[k]]) > 0 THEN doc.cells[selectors[k]]
    ELSE FirstMatch(doc, k + 1)

\* the filter of line 75
GameLink(n) == MatchesItchIo(n.a.href) \/ Includes(n.a.href, <<"/", "g", "a", "m", "e", "s", "/">>)

\* nodes (lines 67-76)
MatchedNodes(doc) ==
    LET n == FirstMatch(doc, 1)
    IN IF Len(n) > 0 THEN n ELSE SelectSeq(doc.anchors, GameLink)

\* nodes.slice(0, 12)
Slice(nodes) == SubSeq(nodes, 1, IF Len(nodes) < SLICE_END THEN Len(nodes) ELSE SLICE_END)

HasUrl(s) == s.url # <<>>

\* parsed (lines 78-87)
ParseDoc(doc, url) ==
    LET cut == Slice(MatchedNodes(doc))
    IN SelectSeq([k \in 1..Len(cut) |-> NodeToSlide(cut[k], url)], HasUrl)

(***************************************************************************)
(* showSlide (lines 97-119) as a function of the state it reads.  The      *)
(* result tells whether the call threw: s.title on line 114 is the first   *)
(* property access on s, after current was assigned on line 99.            *)
(***************************************************************************)
Render(s, url) ==
    [ title |-> PropStr(s, "title"),
      desc  |-> PropStr(s, "desc"),
      img   |-> OrStr(PropStr(s, "img"), "BG.jpg"),
      alt   |-> OrStr(PropStr(s, "title"), "Slide image"),
      href  |-> IF PropUrl(s) # <<>> THEN PropUrl(s) ELSE url ]

\* WrapIndex without the wrap: current = i
WrapIndexUnwrapped(i, n) == i

\* line 99: the index showSlide(i) stores for a list of length n > 0
WrapIndex(i, n) == JsRem(i + n, n)

\* showSlide without the guard of line 98: slides[NaN] is undefined and line
\* 114 throws
showSlideUnguarded(sl, cur, vw, url, i) ==
    IF Len(sl) = 0 THEN [current |-> cur, view |-> vw, threw |-> TRUE]
    ELSE LET c == WrapIndex(i, Len(sl))
             s == JsIndex(sl, c)
         IN IF ThrowsOnAccess(s)
            THEN [current |-> c, view |-> vw, threw |-> TRUE]
            ELSE [current |-> c, view |-> Render(s, url), threw |-> FALSE]

showSlide(sl, cur, vw, url, i) ==
    IF Len(sl) = 0 THEN [current |-> cur, view |-> vw, threw |-> FALSE]
    ELSE LET c == WrapIndex(i, Len(sl))
             s == JsIndex(sl, c)
         IN IF ThrowsOnAccess(s)
            THEN [current |-> c, view |-> vw, threw |-> TRUE]
            ELSE [current |-> c, view |-> Render(s, url), threw |-> FALSE]

nextSlide(sl, cur, vw, url) == showSlide(sl, cur, vw, url, cur + 1)
prevSlide(sl, cur, vw, url) == showSlide(sl, cur, vw, url, cur - 1)

(***************************************************************************)
(* The timer (lines 124-130).  ivs is the browser's map of active          *)
(* intervals, handle -> ms until it is next due; tm is the variable timer. *)
(***************************************************************************)
\* clearInterval(id)
clearInterval(ivs, id) == [h \in DOMAIN ivs \ {id} |-> ivs[h]]

\* the handle setInterval returns: a positive integer not in the map of
\* active timers
FreshHandle(ivs) ==
    CHOOSE h \in 1..(Cardinality(DOMAIN ivs) + 1) :
        h \notin DOMAIN ivs /\ \A j \in 1..(h - 1) : j \in DOMAIN ivs

\* setInterval(nextSlide, AUTO_INTERVAL_MS)
setInterval(ivs) ==
    [h \in DOMAIN ivs \cup {FreshHandle(ivs)} |->
        IF h \in DOMAIN ivs THEN ivs[h] ELSE AUTO_INTERVAL_MS]

\* startAuto without its stopAuto() call
startAutoNoStop(t) ==
    [timer |-> FreshHandle(t.intervals), intervals |-> setInterval(t.intervals)]

\* stopAuto without timer = null: the handle of the cleared interval stays
stopAutoKeepsHandle(t) ==
    IF t.timer # NoTimer
    THEN [timer |-> t.timer, intervals |-> clearInterval(t.intervals, t.timer)]
    ELSE t

stopAuto(t) ==
    IF t.timer # NoTimer
    THEN [timer |-> NoTimer, intervals |-> clearInterval(t.intervals, t.timer)]
    ELSE t

startAuto(t) ==
    LET s == stopAuto(t)
    IN [timer |-> FreshHandle(s.intervals), intervals |-> setInterval(s.intervals)]

(***************************************************************************)
(* What the environment can answer.                                        *)
(***************************************************************************)
\* how a fetch() promise settles: rejected, or a response with res.ok
Responses == {"neterror", "notok", "ok"}

HostA == <<"a", ".", "i", "o">>
UrlA == Https \o HostA
GameA == Obj("A", "d", "i.png", Https \o <<"x">>)
GameC == Obj("C", "c", "c.png", Https \o <<"z">>)
\* an object with a title only: desc is '', img falls back to BG.jpg and the
\* link to itchUrl
GameNoUrl == Obj("N", "", "", <<>>)

Body(k, items) == [kind |-> k, items |-> items]

\* how res.json() of the proxy response settles: rejected (not JSON), or a
\* decoded value that is no array, or an array
ProxyBodies ==
    { Body("syntaxerror", <<>>),
      Body("nonarray", <<>>),
      Body("array", <<>>),
      Body("array", <<GameA>>),
      Body("array", <<GameA, GameNoUrl, GameC>>),
      Body("array", <<JsonNull, JsonNumber>>) }

NoCells == [s \in {selectors[k] : k \in 1..Len(selectors)} |-> <<>>]
Doc(cells, anchors) == [kind |-> "markup", cells |-> cells, anchors |-> anchors]

CellFull == Node(Anchor(Https \o <<"g">>, "", "Link G"), "Game G", "about G", Img("https://img.itch.zone/g.png"))
\* no link inside or around the node: the page URL is its link
CellNoAnchor == Node(NoAnchor, "", "", NoImg)
\* an <a> without href: a.href is ''
CellNoHref == Node(Anchor(<<>>, "t", "x"), "", "", NoImg)
LinkItch == Node(Anchor(Https \o <<"q", ".", "i", "t", "c", "h", ".", "i", "o">>, "",
                        "Q"), "", "", NoImg)
LinkOther == Node(Anchor(Https \o <<"o">>, "", "O"), "", "", NoImg)

\* how res.text() of the direct response settles: rejected, or markup
DirectTexts ==
    { [kind |-> "error", cells |-> NoCells, anchors |-> <<>>],
      Doc(NoCells, <<>>),
      Doc(NoCells, <<LinkOther>>),
      Doc(NoCells, <<LinkOther, LinkItch>>),
      Doc([NoCells EXCEPT ![".game_cell"] = <<CellNoHref>>], <<LinkItch>>),
      Doc([NoCells EXCEPT ![".game_column"] = <<CellFull, CellNoAnchor>>,
                          ![".project_cell"] = <<CellNoHref>>], <<LinkItch>>) }

\* what prompt() returns: null when cancelled, else the text
PromptResults ==
    { [cancelled |-> TRUE, text |-> <<>>],
      [cancelled |-> FALSE, text |-> <<>>],
      [cancelled |-> FALSE, text |-> HostA],
      [cancelled |-> FALSE, text |-> <<"/", "/">> \o HostA],
      [cancelled |-> FALSE, text |-> UrlA] }

(***************************************************************************)
(* fetchSlidesFromItch (lines 39-95), one operator per try block step.     *)
(* An outcome is [kind, value]: "await" (suspended on the body), "next"    *)
(* (control leaves the try block normally), "throw", "return".             *)
(***************************************************************************)
Outcome(k, v) == [kind |-> k, value |-> v]

\* lines 44-46: await fetch(apiUrl); if (res.ok)
ProxyOnResponse(resp) ==
    CASE resp = "neterror" -> Outcome("throw", <<>>)
      [] resp = "notok" -> Outcome("next", <<>>)
      [] OTHER -> Outcome("await", <<>>)

\* lines 47-51: await res.json(); Array.isArray(slides) && slides.length > 0
ProxyOnBody(body) ==
    IF body.kind = "syntaxerror" THEN Outcome("throw", <<>>)
    ELSE IF body.kind = "array" /\ Len(body.items) > 0
         THEN Outcome("return", body.items)
         ELSE Outcome("next", <<>>)

\* the first try without its catch: the error propagates
ProxyNoCatch(o) == o

\* lines 53-55: the catch of the first try
ProxyCatch(o) == IF o.kind = "throw" THEN Outcome("next", <<>>) ELSE o

\* lines 59-60: await fetch(url); if (!res.ok) throw
DirectOnResponse(resp) ==
    IF resp = "ok" THEN Outcome("await", <<>>) ELSE Outcome("throw", <<>>)

\* lines 61-90: await res.text(); parse; if (!parsed.length) throw
DirectOnText(text, url) ==
    IF text.kind = "error" THEN Outcome("throw", <<>>)
    ELSE LET parsed == ParseDoc(text, url)
         IN IF Len(parsed) = 0 THEN Outcome("throw", <<>>)
            ELSE Outcome("return", parsed)

\* lines 91-94: the catch of the second try
DirectCatch(o) == IF o.kind = "throw" THEN Outcome("return", sampleSlides) ELSE o

(***************************************************************************)
(* State.                                                                  *)
(***************************************************************************)
VARIABLES
    slides,      \* let slides (line 23)
    current,     \* let current (line 24)
    timer,       \* let timer (line 25): NoTimer or an interval handle
    itchUrl,     \* let itchUrl (line 26)
    view,        \* what the four DOM slots show
    intervals,   \* the browser's active intervals: handle -> ms until due
    loads,       \* the loadSlides calls started so far, in start order
    hovering,    \* the pointer is over .item_display
    pageLoaded,  \* the window load event has fired
    lastFetch,   \* history: the fetchSlidesFromItch call that settled last
    hist,        \* history: the handler that ran last and what it found
    probe        \* the argument of a stand-alone showSlide call (SpecShow)

vars == <<slides, current, timer, itchUrl, view, intervals, loads, hovering,
          pageLoaded, lastFetch, hist, probe>>

\* the slots as the hosting page ships them
InitialView == [title |-> "", desc |-> "", img |-> "", alt |-> "", href |-> <<>>]

NoFetch == [load |-> 0, raised |-> FALSE, value |-> <<>>]
NoProbe == [i |-> 0, done |-> FALSE, threw |-> FALSE]

\* pastEnd: a completed load stored a list that current pointed past;
\* hadTimer: the handler called startAuto or stopAuto while a timer was active
Hist(ev, l, pastEnd, hadTimer) ==
    [event |-> ev, load |-> l, pastEnd |-> pastEnd, hadTimer |-> hadTimer]

Init ==
    /\ slides = <<>>
    /\ current = 0
    /\ timer = NoTimer
    /\ itchUrl = DEFAULT_ITCH_URL
    /\ view = InitialView
    /\ intervals = <<>>
    /\ loads = <<>>
    /\ hovering = FALSE
    /\ pageLoaded = FALSE
    /\ lastFetch = NoFetch
    /\ hist = Hist("init", 0, FALSE, FALSE)
    /\ probe = NoProbe

Timers == [timer |-> timer, intervals |-> intervals]

(***************************************************************************)
(* loadSlides (lines 132-137).                                             *)
(***************************************************************************)
\* a call of fetchSlidesFromItch(url) up to its first await: the proxy
\* request is in flight
NewLoad(url) ==
    [url |-> url, proxy |-> "inflight", direct |-> "none", proxyReqs |-> 1,
     directReqs |-> 0, fallback |-> FALSE, settled |-> "pending"]

\* line 133
SourceUrl(forUrl, cur) == IF forUrl # <<>> THEN forUrl ELSE cur

\* lines 133-134 up to the await: loadSlides(forUrl) called by handler ev
loadSlides(forUrl, ev) ==
    /\ Len(loads) < MaxLoads
    /\ itchUrl' = SourceUrl(forUrl, itchUrl)
    /\ loads' = Append(loads, NewLoad(SourceUrl(forUrl, itchUrl)))
    /\ hist' = Hist(ev, Len(loads) + 1, FALSE, FALSE)
    /\ UNCHANGED <<slides, current, timer, view, intervals, lastFetch>>

\* a retry of the proxy request before the direct tier is tried
EscalateAfterRetry(ld) ==
    IF ld.proxyReqs < 2
    THEN [ld EXCEPT !.proxy = "inflight", !.proxyReqs = @ + 1]
    ELSE [ld EXCEPT !.proxy = "failed", !.direct = "inflight", !.directReqs = @ + 1]

\* control leaves the first try block: the direct request is issued (line 59)
EscalateToDirect(ld) ==
    [ld EXCEPT !.proxy = "failed", !.direct = "inflight", !.directReqs = @ + 1]

\* lines 134-136 after the await: fetchSlidesFromItch of load l settled with
\* outcome o ("return" or "throw"), ld being the load's record by then
Resume(l, ld, o) ==
    /\ IF o.kind = "throw"
       THEN /\ hist' = Hist("loaded", l, FALSE, FALSE)
            /\ loads' = [loads EXCEPT ![l] = [ld EXCEPT !.settled = "rejected"]]
            /\ lastFetch' = [load |-> l, raised |-> TRUE, value |-> <<>>]
            /\ UNCHANGED <<slides, current, view, timer, intervals>>
       ELSE LET r == showSlide(o.value, current, view, itchUrl, 0)
                t == IF r.threw THEN Timers ELSE startAuto(Timers)
            IN /\ hist' = Hist("loaded", l, current >= Len(o.value),
                             ~r.threw /\ timer # NoTimer)
               /\ slides' = o.value
               /\ current' = r.current
               /\ view' = r.view
               /\ timer' = t.timer
               /\ intervals' = t.intervals
               /\ lastFetch' = [load |-> l, raised |-> FALSE, value |-> o.value]
               /\ loads' = [loads EXCEPT ![l] = [ld EXCEPT !.settled =
                                IF r.threw THEN "rejected" ELSE "resolved"]]

\* what follows an outcome of the first try block
AfterProxy(l, o) ==
    CASE o.kind = "await" ->
            /\ loads' = [loads EXCEPT ![l].proxy = "body"]
            /\ hist' = Hist("response", l, FALSE, FALSE)
            /\ UNCHANGED <<slides, current, view, timer, intervals, lastFetch>>
      [] o.kind = "next" ->
            /\ loads' = [loads EXCEPT ![l] = EscalateToDirect(loads[l])]
            /\ hist' = Hist("response", l, FALSE, FALSE)
            /\ UNCHANGED <<slides, current, view, timer, intervals, lastFetch>>
      [] o.kind = "return" -> Resume(l, [loads[l] EXCEPT !.proxy = "accepted"], o)
      [] OTHER -> Resume(l, [loads[l] EXCEPT !.proxy = "failed"], o)

\* what follows an outcome of the second try block; tried is the outcome
\* before the catch
AfterDirect(l, tried, o) ==
    IF o.kind = "await"
    THEN /\ loads' = [loads EXCEPT ![l].direct = "body"]
         /\ hist' = Hist("response", l, FALSE, FALSE)
         /\ UNCHANGED <<slides, current, view, timer, intervals, lastFetch>>
    ELSE Resume(l, [loads[l] EXCEPT
                       !.direct = IF tried.kind = "throw" THEN "failed" ELSE "parsed",
                       !.fallback = (tried.kind = "throw" /\ o.kind = "return")], o)

\* the proxy request of load l settles
ProxyResponse(l, resp) ==
    /\ loads[l].proxy = "inflight"
    /\ AfterProxy(l, ProxyCatch(ProxyOnResponse(resp)))
    /\ UNCHANGED <<itchUrl, hovering, pageLoaded, probe>>

\* res.json() of load l settles
ProxyBody(l, body) ==
    /\ loads[l].proxy = "body"
    /\ AfterProxy(l, ProxyCatch(ProxyOnBody(body)))
    /\ UNCHANGED <<itchUrl, hovering, pageLoaded, probe>>

\* the direct request of load l settles
DirectResponse(l, resp) ==
    /\ loads[l].direct = "inflight"
    /\ AfterDirect(l, DirectOnResponse(resp), DirectCatch(DirectOnResponse(resp)))
    /\ UNCHANGED <<itchUrl, hovering, pageLoaded, probe>>

\* res.text() of load l settles
DirectText(l, text) ==
    /\ loads[l].direct = "body"
    /\ AfterDirect(l, DirectOnText(text, loads[l].url),
                   DirectCatch(DirectOnText(text, loads[l].url)))
    /\ UNCHANGED <<itchUrl, hovering, pageLoaded, probe>>

(***************************************************************************)
(* Event handlers (lines 140-165) and the interval callback.               *)
(***************************************************************************)
\* nextSlide(); startAuto();  or  prevSlide(); startAuto();  a throw in the
\* first call ends the handler
Navigate(r, ev) ==
    LET t == IF r.threw THEN Timers ELSE startAuto(Timers)
    IN /\ current' = r.current
       /\ view' = r.view
       /\ timer' = t.timer
       /\ intervals' = t.intervals
       /\ hist' = Hist(ev, 0, FALSE, ~r.threw /\ timer # NoTimer)
       /\ UNCHANGED <<slides, itchUrl, loads, hovering, pageLoaded, lastFetch, probe>>

KeyArrowRight == Navigate(nextSlide(slides, current, view, itchUrl), "ArrowRight")

KeyArrowLeft == Navigate(prevSlide(slides, current, view, itchUrl), "ArrowLeft")

\* a test for null only, which lets '' through
NotNull(input) == ~input.cancelled

\* if (input): null and '' are falsy
Truthy(input) == ~input.cancelled /\ input.text # <<>>

KeyF2(input) ==
    IF ~Truthy(input)
    THEN /\ hist' = Hist("F2none", 0, FALSE, FALSE)
         /\ UNCHANGED <<slides, current, timer, itchUrl, view, intervals, loads,
                        hovering, pageLoaded, lastFetch, probe>>
    ELSE /\ loadSlides(Normalize(input.text), "F2")
         /\ UNCHANGED <<hovering, pageLoaded, probe>>

MouseEnter ==
    /\ ~hovering
    /\ hovering' = TRUE
    /\ timer' = stopAuto(Timers).timer
    /\ intervals' = stopAuto(Timers).intervals
    /\ hist' = Hist("mouseenter", 0, FALSE, timer # NoTimer)
    /\ UNCHANGED <<slides, current, itchUrl, view, loads, pageLoaded, lastFetch, probe>>

MouseLeave ==
    /\ hovering
    /\ hovering' = FALSE
    /\ timer' = startAuto(Timers).timer
    /\ intervals' = startAuto(Timers).intervals
    /\ hist' = Hist("mouseleave", 0, FALSE, timer # NoTimer)
    /\ UNCHANGED <<slides, current, itchUrl, view, loads, pageLoaded, lastFetch, probe>>

WindowLoad ==
    /\ ~pageLoaded
    /\ pageLoaded' = TRUE
    /\ loadSlides(DEFAULT_ITCH_URL, "load")
    /\ UNCHANGED <<hovering, probe>>

\* time passes: every active interval comes TickMs closer to being due
Tick ==
    /\ \E h \in DOMAIN intervals : intervals[h] > 0
    /\ intervals' = [h \in DOMAIN intervals |->
                        IF intervals[h] > TickMs THEN intervals[h] - TickMs ELSE 0]
    /\ UNCHANGED <<slides, current, timer, itchUrl, view, loads, hovering,
                   pageLoaded, lastFetch, hist, probe>>

\* interval h is due: the browser runs nextSlide and re-arms the interval,
\* also when the callback throws
TimerFire(h) ==
    /\ h \in DOMAIN intervals
    /\ intervals[h] = 0
    /\ LET r == nextSlide(slides, current, view, itchUrl)
       IN /\ current' = r.current
          /\ view' = r.view
    /\ intervals' = [intervals EXCEPT ![h] = AUTO_INTERVAL_MS]
    /\ hist' = Hist("timer", 0, FALSE, FALSE)
    /\ UNCHANGED <<slides, timer, itchUrl, loads, hovering, pageLoaded, lastFetch, probe>>

Next ==
    \/ WindowLoad
    \/ \E l \in 1..Len(loads), resp \in Responses : ProxyResponse(l, resp)
    \/ \E l \in 1..Len(loads), body \in ProxyBodies : ProxyBody(l, body)
    \/ \E l \in 1..Len(loads), resp \in Responses : DirectResponse(l, resp)
    \/ \E l \in 1..Len(loads), text \in DirectTexts : DirectText(l, text)
    \/ KeyArrowRight
    \/ KeyArrowLeft
    \/ \E input \in PromptResults : KeyF2(input)
    \/ MouseEnter
    \/ MouseLeave
    \/ Tick
    \/ \E h \in DOMAIN intervals : TimerFire(h)

Spec == Init /\ [][Next]_vars

\* a request or a body read of load l settles
SettleStep(l) ==
    /\ l \in 1..Len(loads)
    /\ \/ \E resp \in Responses : ProxyResponse(l, resp)
       \/ \E body \in ProxyBodies : ProxyBody(l, body)
       \/ \E resp \in Responses : DirectResponse(l, resp)
       \/ \E text \in DirectTexts : DirectText(l, text)

\* the program when every network request eventually settles and time
\* passes for the running intervals; user input is never forced
FairSpec ==
    /\ Spec
    /\ \A l \in 1..MaxLoads : WF_vars(SettleStep(l))
    /\ WF_vars(Tick)
    /\ WF_vars(\E h \in DOMAIN intervals : TimerFire(h))

(***************************************************************************)
(* showSlide(i) on its own, for every argument in -MaxArg..MaxArg: the     *)
(* list and index are drawn from the lists a fetch can store.              *)
(***************************************************************************)
ListPool ==
    { <<GameA>>, <<GameA, GameNoUrl, GameC>>, <<JsonNull, JsonNumber>>, sampleSlides }

Shown(sl, c, url) ==
    IF ThrowsOnAccess(sl[c + 1]) THEN InitialView ELSE Render(sl[c + 1], url)

InitShow ==
    /\ slides \in ListPool
    /\ current \in 0..(Len(slides) - 1)
    /\ timer = NoTimer
    /\ itchUrl = DEFAULT_ITCH_URL
    /\ view = Shown(slides, current, itchUrl)
    /\ intervals = <<>>
    /\ loads = <<>>
    /\ hovering = FALSE
    /\ pageLoaded = TRUE
    /\ lastFetch = NoFetch
    /\ hist = Hist("init", 0, FALSE, FALSE)
    /\ probe \in {[i |-> i, done |-> FALSE, threw |-> FALSE] : i \in (-MaxArg)..MaxArg}

ShowSlideCall ==
    /\ ~probe.done
    /\ LET r == showSlide(slides, current, view, itchUrl, probe.i)
       IN /\ current' = r.current
          /\ view' = r.view
          /\ probe' = [probe EXCEPT !.done = TRUE, !.threw = r.threw]
    /\ UNCHANGED <<slides, timer, itchUrl, intervals, loads, hovering, pageLoaded,
                   lastFetch, hist>>

SpecShow == InitShow /\ [][ShowSlideCall]_vars

(***************************************************************************)
(* The F2 handler on its own, for a wider range of prompt inputs: with and *)
(* without a scheme in either case, with leading slashes, with text that   *)
(* only resembles a scheme.                                                *)
(***************************************************************************)
InputHeads ==
    { <<>>, <<"/", "/">>, <<"/">>,
      <<"h", "t", "t", "p", ":", "/", "/">>, Https,
      <<"H", "T", "T", "P", ":", "/", "/">>,
      <<"h", "T", "t", "P", "s", ":", "/", "/">>,
      <<"h", "t", "t", "p", ":", "/">>, <<"h", "t", "t", "p", "s", ":">>,
      <<"f", "t", "p", ":", "/", "/">>, <<"h">> }

InputTails == { <<>>, HostA, <<"/", "/", "a">>, <<"h", "t", "t", "p", ":", "/", "/", "a">> }

WidePromptResults ==
    {[cancelled |-> TRUE, text |-> <<>>]}
        \cup {[cancelled |-> FALSE, text |-> h \o t] : h \in InputHeads, t \in InputTails}

NextPrompt == \E input \in WidePromptResults : KeyF2(input)

SpecPrompt == Init /\ [][NextPrompt]_vars

(***************************************************************************)
(* Properties.                                                             *)
(***************************************************************************)
Settled(l) == loads[l].settled # "pending"

\* C1: every fetchSlidesFromItch call that has settled, whatever the proxy
\* and the direct request answered, raised nothing to its caller and
\* returned a non-empty list.
FetchIsTotal ==
    lastFetch.load # 0 => ~lastFetch.raised /\ Len(lastFetch.value) > 0

\* a fetch that went through all three tiers has settled
FetchFellBack ==
    /\ lastFetch.load # 0
    /\ loads[lastFetch.load].fallback
    /\ lastFetch.value = sampleSlides

\* C2: a proxy answer is accepted only if it is an array of Slide objects:
\* an array with other elements never becomes the slide list.
ProxyAcceptsOnlySlides ==
    /\ \A k \in 1..Len(slides) : slides[k].kind = "object"
    /\ lastFetch.load # 0 /\ loads[lastFetch.load].proxy = "accepted"
         => \A k \in 1..Len(lastFetch.value) : lastFetch.value[k].kind = "object"

\* C3: whenever the slide list is non-empty, 0 <= current < slides.length.
IndexInRange == Len(slides) > 0 => current \in 0..(Len(slides) - 1)

\* a completed load has stored a list that current pointed past
ShorterListLoaded == hist.event = "loaded" /\ hist.pastEnd /\ Len(slides) > 0

\* C4: on a non-empty list of length n, showSlide(i) sets current to
\* ((i % n) + n) % n, in 0..n-1, for every integer i.
ShowSlideWrapsAnyInteger ==
    probe.done =>
        /\ current = JsRem(JsRem(probe.i, Len(slides)) + Len(slides), Len(slides))
        /\ current \in 0..(Len(slides) - 1)

\* C5: at most one interval is scheduled, and one is scheduled exactly when
\* the timer handle is non-null (it is then the one the handle names).
OneIntervalIffHandle ==
    /\ Cardinality(DOMAIN intervals) <= 1
    /\ timer = NoTimer <=> DOMAIN intervals = {}
    /\ timer # NoTimer => DOMAIN intervals = {timer}

\* a key press has restarted the timer while one was active
RestartedActiveTimer ==
    /\ hist.event \in {"ArrowRight", "ArrowLeft"}
    /\ hist.hadTimer
    /\ timer # NoTimer

\* C6: while the pointer is over the display area no auto-advance timer is
\* active.
NoTimerWhileHovering == hovering => timer = NoTimer /\ DOMAIN intervals = {}

\* C7: when a load completes, the slide list is the list its fetch returned,
\* current is 0, element 0 of the list is rendered and exactly one timer is
\* active.
LoadCompletionState ==
    hist.event = "loaded" =>
        /\ lastFetch.load = hist.load
        /\ slides = lastFetch.value
        /\ current = 0
        /\ view = Render(slides[1], itchUrl)
        /\ timer # NoTimer
        /\ DOMAIN intervals = {timer}

\* C8: every completion of a load, overlapping or not and whatever the order
\* the loads were started in, replaces the slide list by its own fetch's
\* list, resets the index to 0 and restarts the timer.
EveryCompletionTakesOver ==
    [][\A l \in 1..Len(loads) :
          ~Settled(l) /\ loads'[l].settled # "pending" =>
              /\ lastFetch'.load = l
              /\ slides' = lastFetch'.value
              /\ current' = 0
              /\ timer' # NoTimer
              /\ DOMAIN intervals' = {timer'}
              /\ intervals'[timer'] = AUTO_INTERVAL_MS]_vars

\* C9: within one load each request is issued at most once, the direct
\* request only after the proxy tier has failed, the fallback list only
\* after the direct tier has failed too, and the two requests are never in
\* flight together.
TiersInOrder ==
    \A l \in 1..Len(loads) :
        /\ loads[l].proxyReqs <= 1
        /\ loads[l].directReqs <= 1
        /\ loads[l].direct # "none" => loads[l].proxy = "failed" /\ loads[l].directReqs = 1
        /\ loads[l].fallback => loads[l].proxy = "failed" /\ loads[l].direct = "failed"
        /\ ~(loads[l].proxy \in {"inflight", "body"}
             /\ loads[l].direct \in {"inflight", "body"})

\* the direct request of a load is in flight, after its proxy tier failed
DirectInFlight ==
    \E l \in 1..Len(loads) : loads[l].direct = "inflight" /\ loads[l].proxy = "failed"

\* C10: an arrow key on a non-empty list moves the index by one step with
\* wraparound and leaves one timer with a full interval to run.
ArrowKeyResetsCountdown ==
    [][/\ Len(slides) > 0
       /\ KeyArrowRight \/ KeyArrowLeft
       => /\ KeyArrowRight => current' = (current + 1) % Len(slides)
          /\ KeyArrowLeft => current' = (current + Len(slides) - 1) % Len(slides)
          /\ timer' # NoTimer
          /\ DOMAIN intervals' = {timer'}
          /\ intervals'[timer'] = AUTO_INTERVAL_MS]_vars


\* C11: a fetch whose proxy tier and direct tier both failed returns exactly
\* the two sample entries, both linking to https://ducky-dev.itch.io, whatever
\* URL was asked for and whatever was fetched or stored before.
FallbackIsTheTwoSamples ==
    \A l \in 1..Len(loads) :
        lastFetch.load = l /\ loads[l].proxy = "failed" /\ loads[l].direct = "failed" =>
            /\ Len(lastFetch.value) = 2
            /\ lastFetch.value[1].title = "Sample Game 1"
            /\ lastFetch.value[2].title = "Sample Game 2"
            /\ \A k \in 1..2 :
                  /\ lastFetch.value[k].kind = "object"
                  /\ lastFetch.value[k].img = "BG.jpg"
                  /\ lastFetch.value[k].url =
                        <<"h", "t", "t", "p", "s", ":", "/", "/", "d", "u", "c", "k", "y",
                          "-", "d", "e", "v", ".", "i", "t", "c", "h", ".", "i", "o">>

\* the second load, for another URL than the default one, fell back after an
\* earlier load had stored a list
SecondLoadFellBack ==
    /\ lastFetch.load = 2
    /\ loads[2].fallback
    /\ loads[2].url # DEFAULT_ITCH_URL
    /\ loads[1].settled = "resolved"


\* C12: a proxy answer with success status and a non-empty array is returned
\* as it is, without a direct request; the load renders the title, desc, img
\* and url of its element 0, and on a one-element array every arrow key and
\* timer tick keeps that slide rendered.
ProxyArrayShownAsIs ==
    [][/\ \A l \in 1..Len(loads), body \in ProxyBodies :
             ProxyBody(l, body) /\ body.kind = "array" /\ Len(body.items) > 0 =>
                 /\ lastFetch' = [load |-> l, raised |-> FALSE, value |-> body.items]
                 /\ slides' = body.items
                 /\ loads'[l].directReqs = 0
                 /\ loads'[l].direct = "none"
                 /\ body.items[1].kind = "object"
                 /\ view'.title = body.items[1].title
                 /\ view'.desc = body.items[1].desc
                 /\ view'.img = body.items[1].img
                 /\ view'.href = body.items[1].url
       /\ Len(slides) = 1 /\ (KeyArrowRight \/ KeyArrowLeft \/ TimerFire(timer)) =>
             /\ current' = 0
             /\ slides[1].kind = "object"
             /\ view'.title = slides[1].title
             /\ view'.desc = slides[1].desc
             /\ view'.img = slides[1].img
             /\ view'.href = slides[1].url]_vars


\* C13: while the slide list is empty, showSlide(i) renders nothing, keeps
\* current and the rendered fields and throws nothing, for every i; so do the
\* arrow keys (which go on to start the timer) and the timer ticks.
EmptyListShowsNothing ==
    [][Len(slides) = 0 =>
          /\ \A i \in (-MaxArg)..MaxArg :
                showSlide(slides, current, view, itchUrl, i)
                    = [current |-> current, view |-> view, threw |-> FALSE]
          /\ KeyArrowRight \/ KeyArrowLeft =>
                current' = current /\ view' = view /\ timer' # NoTimer
          /\ \A h \in DOMAIN intervals : TimerFire(h) =>
                current' = current /\ view' = view]_vars

\* the interval callback has run on the empty list
TimerFiredOnEmptyList ==
    hist.event = "timer" /\ Len(slides) = 0 /\ current = 0 /\ view = InitialView


\* C14: stopAuto with no timer active changes nothing; a second stopAuto
\* changes nothing after the first, which leaves no timer and a null handle;
\* the mouseenter handler, which is stopAuto, keeps slides, current and the
\* source URL.
StopAutoIdempotent ==
    [][/\ timer = NoTimer => stopAuto(Timers) = Timers
       /\ stopAuto(stopAuto(Timers)) = stopAuto(Timers)
       /\ stopAuto(Timers).timer = NoTimer
       /\ DOMAIN stopAuto(Timers).intervals = {}
       /\ MouseEnter =>
             /\ timer' = NoTimer
             /\ DOMAIN intervals' = {}
             /\ timer = NoTimer => intervals' = intervals
             /\ slides' = slides /\ current' = current /\ itchUrl' = itchUrl
             /\ view' = view]_vars

\* the pointer entered the display area while no timer was active
StoppedWithoutTimer ==
    hist.event = "mouseenter" /\ ~hist.hadTimer /\ timer = NoTimer /\ hovering


\* C15: an F2 prompt that is cancelled or confirmed empty starts no fetch and
\* leaves the source URL, the slide list, the index, the rendered slide and
\* the timer as they were.
DismissedPromptIsNoOp ==
    [][\A input \in PromptResults :
          (input.cancelled \/ input.text = <<>>) /\ KeyF2(input) =>
              /\ loads' = loads
              /\ itchUrl' = itchUrl
              /\ slides' = slides
              /\ current' = current
              /\ view' = view
              /\ timer' = timer
              /\ intervals' = intervals]_vars

\* a prompt was dismissed while a slideshow was running
PromptDismissed ==
    hist.event = "F2none" /\ Len(slides) > 0 /\ timer # NoTimer /\ Len(loads) < MaxLoads


\* every spelling of http:// and https:// in upper and lower case
SchemeSpellings ==
    LET Http4 == { <<a, b, c, d>> : a \in {"h", "H"}, b \in {"t", "T"}, c \in {"t", "T"},
                                    d \in {"p", "P"} }
    IN {w \o <<":", "/", "/">> : w \in Http4}
         \cup {w \o <<s, ":", "/", "/">> : w \in Http4, s \in {"s", "S"}}

SpelledWithScheme(text) ==
    \E w \in SchemeSpellings : Len(text) >= Len(w) /\ SubSeq(text, 1, Len(w)) = w

\* C16: a non-empty F2 input that starts with http:// or https:// in any
\* case becomes the source URL unchanged, any other one with https:// put
\* before it after a leading // was removed; normalising the result again
\* changes nothing, and the load is started for the normalised value.
PromptInputNormalized ==
    [][\A input \in WidePromptResults :
          ~input.cancelled /\ input.text # <<>> /\ KeyF2(input) =>
              LET t == input.text
                  bare == IF Len(t) >= 2 /\ t[1] = "/" /\ t[2] = "/"
                          THEN SubSeq(t, 3, Len(t)) ELSE t
              IN /\ SpelledWithScheme(t) => itchUrl' = t
                 /\ ~SpelledWithScheme(t) =>
                       itchUrl' = <<"h", "t", "t", "p", "s", ":", "/", "/">> \o bare
                 /\ Normalize(itchUrl') = itchUrl'
                 /\ Len(loads') = Len(loads) + 1
                 /\ loads'[Len(loads')].url = itchUrl'
                 /\ loads'[Len(loads')].proxy = "inflight"]_vars

\* a second F2 input has replaced the source URL of the first by
\* https://a.io
SourceUrlReplaced ==
    /\ hist.event = "F2"
    /\ Len(loads) = 2
    /\ loads[1].url # UrlA
    /\ itchUrl = UrlA
    /\ loads[2].url = UrlA


\* k calls of nextSlide in a row, from index cur and view vw
RECURSIVE NextTimes(_, _, _)
NextTimes(k, cur, vw) ==
    IF k = 0 THEN [current |-> cur, view |-> vw, threw |-> FALSE]
    ELSE LET r == nextSlide(slides, cur, vw, itchUrl)
         IN NextTimes(k - 1, r.current, r.view)

\* the call r rendered element c of the slide list
Rendered(r, c) ==
    /\ r.current = c
    /\ ~r.threw
    /\ slides[c + 1].kind # "null"
    /\ r.view = Render(slides[c + 1], itchUrl)

\* C17: on a non-empty list of length n, next() moves current to
\* (current + 1) mod n and previous() to (current - 1) mod n; next then
\* previous, previous then next, and n times next each end on the starting
\* index with its slide rendered.
NextPreviousRoundTrip ==
    Len(slides) > 0 =>
        LET n == Len(slides)
            nx == nextSlide(slides, current, view, itchUrl)
            pv == prevSlide(slides, current, view, itchUrl)
        IN /\ nx.current = (current + 1) % n
           /\ pv.current = (current + n - 1) % n
           /\ Rendered(prevSlide(slides, nx.current, nx.view, itchUrl), current)
           /\ Rendered(nextSlide(slides, pv.current, pv.view, itchUrl), current)
           /\ Rendered(NextTimes(n, current, view), current)


\* C18: when every network request eventually settles, every started load
\* eventually completes, and after the page-load event the widget eventually
\* shows slide 0 of a non-empty list with the timer active.
LoadsCompleteAndShow ==
    /\ \A l \in 1..MaxLoads : (Len(loads) >= l) ~> (Len(loads) >= l /\ Settled(l))
    /\ (pageLoaded /\ hist.event = "load") ~> /\ Len(slides) > 0
                                               /\ current = 0
                                               /\ slides[1].kind # "null"
                                               /\ view = Render(slides[1], itchUrl)
                                               /\ timer # NoTimer


\* C19: once the slide list is non-empty no step makes it empty again, and
\* from then on every arrow key and every timer tick renders the slide of
\* the index it moved to.
NonEmptyForGood ==
    [][Len(slides) > 0 =>
         /\ Len(slides') > 0
         /\ hist'.event \in {"ArrowRight", "ArrowLeft", "timer"} =>
                /\ slides'[current' + 1].kind # "null"
                /\ view' = Render(slides'[current' + 1], itchUrl')]_vars


\* C20: once no load is in flight, the slide list on display is the one
\* fetched for the active source URL.
SlidesMatchSource ==
    (Len(loads) > 0 /\ \A l \in 1..Len(loads) : Settled(l)) =>
        /\ lastFetch.load \in 1..Len(loads)
        /\ loads[lastFetch.load].url = itchUrl

====
